---- MODULE Spec2Model ----
(***************************************************************************)
(* Model of plugins/modules/inventory_to_container.py (arista.avd):        *)
(* serialize builds a treelib tree from a nested inventory mapping,        *)
(* get_devices collects the hosts of one group, get_containers turns the   *)
(* subtree below a root container into the cv_container topology.          *)
(*                                                                         *)
(* A Python dict is a record [kind |-> "dict", items |-> sequence of       *)
(* [k, v] pairs in insertion order]; None is [kind |-> "none"].            *)
(***************************************************************************)
EXTENDS Integers, Sequences, FiniteSets, TLC

VARIABLES desc, inventory, default_devices, ncalls, last

vars == <<desc, inventory, default_devices, ncalls, last>>

(***************************************************************************)
(* Bounds of the explored inputs.                                          *)
(***************************************************************************)
MaxGroups == 3
MaxHosts == 2
MaxCalls == 2

CVP_ROOT_CONTAINER == "Tenant"

\* Group name of the i-th group of an inventory, unless it is renamed.
GroupNames == <<"all", "DC1", "DC1_SPINES", "DC1_LEAFS", "DC2">>

\* Host names of the i-th group, in the order of its hosts mapping.
DeviceNames ==
    << <<"cvp1", "cvp2", "cvp3">>,
       <<"border1", "border2", "border3">>,
       <<"spine1", "spine2", "spine3">>,
       <<"leaf1", "leaf2", "leaf3">>,
       <<"edge1", "edge2", "edge3">> >>

\* Every string that can be a node tag, in Python's str order (treelib sorts
\* the children of a node by tag when it expands a tree).
NameOrder ==
    <<"DC1", "DC1_LEAFS", "DC1_SPINES", "DC2", "Tenant", "all", "children",
      "hosts", "ungrouped">>

AllNames == {NameOrder[i] : i \in 1..Len(NameOrder)}

Rank(s) == CHOOSE i \in 1..Len(NameOrder) : NameOrder[i] = s

(***************************************************************************)
(* Python values.                                                          *)
(***************************************************************************)
None == [kind |-> "none", items |-> <<>>]

Dict(its) == [kind |-> "dict", items |-> its]

Item(key, val) == [k |-> key, v |-> val]

\* `key in mapping` for a dict
HasKey(d, key) == \E i \in 1..Len(d.items) : d.items[i].k = key

\* mapping[key]
Get(d, key) == d.items[CHOOSE i \in 1..Len(d.items) : d.items[i].k = key].v

isIterable(testing_object) == testing_object.kind = "dict"

(***************************************************************************)
(* The inventories explored.  A descriptor lists n groups; group i sits    *)
(* under group parent[i] (0: top level), is called name[i], has a          *)
(* children key iff kids[i], and declares the first hosts[i] of its host   *)
(* names (0: no hosts key).  style "plain": the top level is keyed by      *)
(* group names; "null": the same plus a group whose value is null;         *)
(* "literal": the top level is itself a mapping with the key children.     *)
(***************************************************************************)
Styles == {"plain", "null", "literal"}

HasChild(d, i) == \E j \in 1..d.n : d.parent[j] = i

\* Renamings: all names distinct, or one group takes the name of an earlier
\* group, or the first group is called like the reserved root.
Namings(n) ==
    LET base == [i \in 1..n |-> GroupNames[i]]
    IN  {base}
        \cup {[base EXCEPT ![i] = GroupNames[j]] :
                  <<i, j>> \in {ij \in (1..n) \X (1..n) : ij[2] < ij[1]}}
        \cup {[base EXCEPT ![1] = CVP_ROOT_CONTAINER]}

\* Group i sits under an earlier group or at the top level.
Parents(n) == {q \in [1..n -> 0..(n - 1)] : \A i \in 1..n : q[i] < i}

\* The groups that declare hosts all declare the same number of them.
HostProfiles(n) ==
    {[i \in 1..n |-> IF i \in H THEN k ELSE 0] :
        H \in SUBSET (1..n), k \in 1..MaxHosts}

\* A group with sub-groups has the children key; the last group, which has
\* none, may have an empty children mapping.
Kids(n, p) ==
    {[i \in 1..n |-> (\E j \in 1..n : p[j] = i) \/ (i = n /\ e)] :
        e \in BOOLEAN}

Descriptor(n, p, nm, kd, hs, st) ==
    [n |-> n, parent |-> p, name |-> nm, kids |-> kd, hosts |-> hs,
     style |-> st]

\* The keys of one mapping are distinct.
WellFormed(d) ==
    \A i, j \in 1..d.n :
        i < j /\ d.parent[i] = d.parent[j] => d.name[i] # d.name[j]

HostItems(i, cnt) == [h \in 1..cnt |-> Item(DeviceNames[i][h], Dict(<<>>))]

RECURSIVE GroupItems(_, _, _)
\* The items of the mapping that holds the groups j..n whose parent is p.
GroupItems(d, p, j) ==
    IF j > d.n THEN <<>>
    ELSE IF d.parent[j] # p THEN GroupItems(d, p, j + 1)
    ELSE LET ch == IF d.kids[j]
                   THEN <<Item("children", Dict(GroupItems(d, j, j + 1)))>>
                   ELSE <<>>
             hs == IF d.hosts[j] > 0
                   THEN <<Item("hosts", Dict(HostItems(j, d.hosts[j])))>>
                   ELSE <<>>
         IN  <<Item(d.name[j], Dict(ch \o hs))>> \o GroupItems(d, p, j + 1)

BuildInventory(d) ==
    CASE d.style = "plain" -> Dict(GroupItems(d, 0, 1))
      [] d.style = "null" ->
            Dict(GroupItems(d, 0, 1) \o <<Item("ungrouped", None)>>)
      [] d.style = "literal" ->
            Dict(<<Item("children", Dict(GroupItems(d, 0, 1)))>>)

(***************************************************************************)
(* treelib.Tree: the nodes in creation order, each with its parent         *)
(* ("" for the root).  The module imports Tree from treelib; of that       *)
(* library the model has what the module calls: create_node raises         *)
(* DuplicatedNodeIdError for an identifier the tree has and                *)
(* NodeIDAbsentError for a parent it has not, subtree raises               *)
(* NodeIDAbsentError for a node it has not, expand_tree walks depth first  *)
(* with the children of a node sorted by tag, and parent of the root of a  *)
(* subtree is None.                                                        *)
(***************************************************************************)
NoTree == <<>>

Node(id, par) == [id |-> id, parent |-> par]

Ids(tree) == {tree[i].id : i \in 1..Len(tree)}

Contains(tree, nid) == nid \in Ids(tree)

ParentOf(tree, nid) ==
    tree[CHOOSE i \in 1..Len(tree) : tree[i].id = nid].parent

\* A tree under construction: st.err is "" until a call raises.
Ok(tree) == [tree |-> tree, err |-> ""]

\* create_node without the check of the identifier: a second node of a
\* name is dropped silently.
create_node_ignore(st, id, par) ==
    IF st.err # "" \/ Contains(st.tree, id) THEN st
    ELSE IF par # "" /\ ~Contains(st.tree, par)
         THEN [st EXCEPT !.err = "NodeIDAbsentError"]
    ELSE [st EXCEPT !.tree = Append(st.tree, Node(id, par))]

\* create_node where a second node of a name raises nothing and the build
\* goes on with the tree as it is.
create_node_open(st, id, par) ==
    IF st.err # "" THEN st
    ELSE IF Contains(st.tree, id) THEN Ok(st.tree)
    ELSE IF par # "" /\ ~Contains(st.tree, par)
         THEN [st EXCEPT !.err = "NodeIDAbsentError"]
    ELSE [st EXCEPT !.tree = Append(st.tree, Node(id, par))]

\* Tree.create_node(tag, identifier, parent): the identifier must be new
\* and the parent present.
create_node(st, id, par) ==
    IF st.err # "" THEN st
    ELSE IF Contains(st.tree, id)
         THEN [st EXCEPT !.err = "DuplicatedNodeIdError"]
    ELSE IF par # "" /\ ~Contains(st.tree, par)
         THEN [st EXCEPT !.err = "NodeIDAbsentError"]
    ELSE [st EXCEPT !.tree = Append(st.tree, Node(id, par))]

RECURSIVE serialize(_, _, _)
RECURSIVE serializeItems(_, _, _, _)
RECURSIVE serializeSubgroups(_, _, _, _)

\* for k2, v2 in v1.items(): create_node(k2, parent_container); serialize(v2, k2)
serializeSubgroups(v1, j, parent_container, st) ==
    IF j > Len(v1.items) \/ st.err # "" THEN st
    ELSE LET k2 == v1.items[j].k
             v2 == v1.items[j].v
             s1 == create_node(st, k2, parent_container)
             s2 == IF s1.err # "" THEN s1 ELSE serialize(v2, k2, s1)
         IN  serializeSubgroups(v1, j + 1, parent_container, s2)

\* for k1, v1 in dict_inventory.items(): ...
serializeItems(dict_inventory, i, parent_container, st) ==
    IF i > Len(dict_inventory.items) \/ st.err # "" THEN st
    ELSE LET k1 == dict_inventory.items[i].k
             v1 == dict_inventory.items[i].v
             \* Read a leaf
             s1 == IF isIterable(v1) /\ ~HasKey(v1, "children")
                   THEN create_node(st, k1, parent_container)
                   ELSE st
             \* If subgroup has kids / Extract sub-group information
             s2 == IF s1.err # "" THEN s1
                   ELSE IF isIterable(v1) /\ HasKey(v1, "children")
                   THEN LET s3 == create_node(s1, k1, parent_container)
                        IN  IF s3.err # "" THEN s3
                            ELSE serialize(Get(v1, "children"), k1, s3)
                   ELSE IF k1 = "children" /\ isIterable(v1)
                   THEN serializeSubgroups(v1, 1, parent_container, s1)
                   ELSE s1
         IN  serializeItems(dict_inventory, i + 1, parent_container, s2)

\* A recursive call: the tree exists, a value that is not iterable is left alone.
serialize(dict_inventory, parent_container, st) ==
    IF isIterable(dict_inventory)
    THEN serializeItems(dict_inventory, 1, parent_container, st)
    ELSE st

\* serialize(dict_inventory=inventory_content): the tree is created with its
\* root Tenant before the inventory is read.
build_tree(dict_inventory) ==
    IF isIterable(dict_inventory)
    THEN serializeItems(dict_inventory, 1, CVP_ROOT_CONTAINER,
                        create_node(Ok(NoTree), CVP_ROOT_CONTAINER, ""))
    ELSE [tree |-> NoTree, err |-> "None"]

(***************************************************************************)
(* get_devices.  The collector list is threaded through the loops; err is  *)
(* "" until a call raises.                                                 *)
(***************************************************************************)
Keys(d) == [i \in 1..Len(d.items) |-> d.items[i].k]

RECURSIVE get_devices(_, _, _)
RECURSIVE get_devicesItems(_, _, _, _)

\* for k2, v2 in v1.items(): get_devices(dict_inventory=v2, ..., devcices=devices)
\* The keyword devcices is no parameter of get_devices: the first call raises.
get_devicesSubgroups(v1, search_container, st) ==
    IF Len(v1.items) = 0 THEN st
    ELSE [st EXCEPT !.err = "TypeError"]

get_devicesItems(dict_inventory, i, search_container, st) ==
    IF i > Len(dict_inventory.items) \/ st.err # "" THEN st
    ELSE LET k1 == dict_inventory.items[i].k
             v1 == dict_inventory.items[i].v
             \* Read a leaf: `'hosts' in v1` raises on a value that is no container
             s1 == IF k1 = search_container
                   THEN IF ~isIterable(v1)
                        THEN [st EXCEPT !.err = "TypeError"]
                        ELSE IF HasKey(v1, "hosts")
                        THEN [st EXCEPT
                                !.devices = @ \o Keys(Get(v1, "hosts"))]
                        ELSE st
                   ELSE st
             \* If subgroup has kids / Extract sub-group information
             s2 == IF s1.err # "" THEN s1
                   ELSE IF isIterable(v1) /\ HasKey(v1, "children")
                   THEN get_devices(Get(v1, "children"), search_container, s1)
                   ELSE IF k1 = "children" /\ isIterable(v1)
                   THEN get_devicesSubgroups(v1, search_container, s1)
                   ELSE s1
         IN  get_devicesItems(dict_inventory, i + 1, search_container, s2)

get_devices(dict_inventory, search_container, st) ==
    get_devicesItems(dict_inventory, 1, search_container, st)

Collector(devices) == [devices |-> devices, err |-> ""]

(***************************************************************************)
(* get_containers.                                                         *)
(***************************************************************************)
\* Tree.is_branch(nid): the children of nid, in creation order
is_branch(tree, nid) ==
    LET idx == {i \in 1..Len(tree) : tree[i].parent = nid}
        RECURSIVE pick(_)
        pick(from) ==
            IF \A i \in idx : i < from THEN <<>>
            ELSE LET m == CHOOSE i \in idx :
                            i >= from /\ \A j \in idx : j >= from => i <= j
                 IN  <<tree[m].id>> \o pick(m + 1)
    IN  pick(1)

\* isLeaf that is true of every node
isLeaf_always(tree, nid) == Len(is_branch(tree, nid)) >= 0

\* isLeaf that asks for one child
isLeaf_one(tree, nid) == Len(is_branch(tree, nid)) = 1

isLeaf(tree, nid) == Len(is_branch(tree, nid)) = 0

RECURSIVE SortByTag(_)
SortByTag(ids) ==
    IF Len(ids) = 0 THEN <<>>
    ELSE LET m == CHOOSE i \in 1..Len(ids) :
                    \A j \in 1..Len(ids) : Rank(ids[i]) <= Rank(ids[j])
             rest == [j \in 1..(Len(ids) - 1) |->
                        IF j < m THEN ids[j] ELSE ids[j + 1]]
         IN  <<ids[m]>> \o SortByTag(rest)

RECURSIVE expand_tree(_, _)
RECURSIVE expandAll(_, _)

\* Tree.expand_tree(nid): depth first, a node before its children, the
\* children of a node sorted by tag
expand_tree(tree, nid) ==
    <<nid>> \o expandAll(tree, SortByTag(is_branch(tree, nid)))

expandAll(tree, ids) ==
    IF Len(ids) = 0 THEN <<>>
    ELSE expand_tree(tree, Head(ids)) \o expandAll(tree, Tail(ids))

\* subtree that answers an absent nid with an empty tree
subtree_lenient(tree, nid) ==
    IF ~Contains(tree, nid) THEN Ok(NoTree)
    ELSE LET below == expand_tree(tree, nid)
             keep == {below[i] : i \in 1..Len(below)}
             RECURSIVE cut(_)
             cut(i) ==
                IF i > Len(tree) THEN <<>>
                ELSE IF tree[i].id \notin keep THEN cut(i + 1)
                ELSE <<IF tree[i].id = nid THEN Node(nid, "") ELSE tree[i]>>
                     \o cut(i + 1)
         IN  Ok(cut(1))

\* Tree.subtree(nid): the nodes below nid, nid being the root of the new tree
subtree(tree, nid) ==
    IF ~Contains(tree, nid) THEN [tree |-> NoTree, err |-> "NodeIDAbsentError"]
    ELSE LET below == expand_tree(tree, nid)
             keep == {below[i] : i \in 1..Len(below)}
             RECURSIVE cut(_)
             cut(i) ==
                IF i > Len(tree) THEN <<>>
                ELSE IF tree[i].id \notin keep THEN cut(i + 1)
                ELSE <<IF tree[i].id = nid THEN Node(nid, "") ELSE tree[i]>>
                     \o cut(i + 1)
         IN  Ok(cut(1))

\* One entry of container_json: data = dict(), then the keys that were set.
Data(name) ==
    [name |-> name, has_parent |-> FALSE, parent_container |-> "",
     has_devices |-> FALSE, devices |-> <<>>]

\* The outcome of a call of get_containers: status "ok" or the exception,
\* stage the statement that raised, created whether container_json exists,
\* container_json the records in insertion order.
Outcome(status, stage, created, json, tree, sub) ==
    [status |-> status, stage |-> stage, created |-> created,
     container_json |-> json, tree |-> tree, tree_dc |-> sub]

\* a loop that records the reserved root like any container
recorded_all(container) == container \in AllNames

\* if container != CVP_ROOT_CONTAINER: the reserved root gets no record
recorded(container) == container # CVP_ROOT_CONTAINER

\* The body of the loop without the case of the root container: the root is
\* recorded under its parent in tree_dc, which it has not.
container_data_structural(inventory_content, tree_dc, container, parent_container) ==
    LET parent == ParentOf(tree_dc, container)
    IN  IF parent # CVP_ROOT_CONTAINER
        THEN IF isLeaf(tree_dc, container)
             THEN LET got == get_devices(inventory_content, container,
                                         Collector(<<>>))
                  IN  [data |-> [Data(container) EXCEPT
                                   !.has_devices = TRUE,
                                   !.devices = got.devices,
                                   !.has_parent = TRUE,
                                   !.parent_container = parent],
                       err |-> got.err]
             ELSE [data |-> [Data(container) EXCEPT
                               !.has_parent = TRUE,
                               !.parent_container = parent],
                   err |-> ""]
        ELSE [data |-> Data(container), err |-> ""]

\* The body of the loop for one container: data as it is stored in
\* container_json, or the exception of get_devices.
container_data(inventory_content, tree_dc, container, parent_container) ==
    LET parent == ParentOf(tree_dc, container)
    IN  IF container = parent_container
        THEN [data |-> [Data(container) EXCEPT
                          !.has_parent = TRUE,
                          !.parent_container = CVP_ROOT_CONTAINER],
              err |-> ""]
        ELSE IF parent # CVP_ROOT_CONTAINER
        THEN IF isLeaf(tree_dc, container)
             THEN LET got == get_devices(inventory_content, container,
                                         Collector(<<>>))
                  IN  [data |-> [Data(container) EXCEPT
                                   !.has_devices = TRUE,
                                   !.devices = got.devices,
                                   !.has_parent = TRUE,
                                   !.parent_container = parent],
                       err |-> got.err]
             ELSE [data |-> [Data(container) EXCEPT
                               !.has_parent = TRUE,
                               !.parent_container = parent],
                   err |-> ""]
        ELSE [data |-> Data(container), err |-> ""]

RECURSIVE containerLoop(_, _, _, _, _, _)
\* for container in container_list: ...
containerLoop(inventory_content, parent_container, tree_dc, container_list, i, json) ==
    IF i > Len(container_list) THEN [json |-> json, err |-> ""]
    ELSE IF ~recorded(container_list[i])
    THEN containerLoop(inventory_content, parent_container, tree_dc,
                       container_list, i + 1, json)
    ELSE LET got == container_data(inventory_content, tree_dc,
                                   container_list[i], parent_container)
         IN  IF got.err # "" THEN [json |-> json, err |-> got.err]
             ELSE containerLoop(inventory_content, parent_container, tree_dc,
                                container_list, i + 1, Append(json, got.data))

get_containers(inventory_content, parent_container) ==
    LET serialized_inventory == build_tree(inventory_content)
    IN  IF serialized_inventory.err # ""
        THEN Outcome(serialized_inventory.err, "serialize", FALSE, <<>>,
                     NoTree, NoTree)
        ELSE LET tree_dc == subtree(serialized_inventory.tree, parent_container)
             IN  IF tree_dc.err # ""
                 THEN Outcome(tree_dc.err, "subtree", FALSE, <<>>,
                              serialized_inventory.tree, NoTree)
                 ELSE LET container_list ==
                              expand_tree(tree_dc.tree, parent_container)
                          done == containerLoop(inventory_content,
                                    parent_container, tree_dc.tree,
                                    container_list, 1, <<>>)
                      IN  IF done.err # ""
                          THEN Outcome(done.err, "get_devices", TRUE,
                                       done.json, serialized_inventory.tree,
                                       tree_dc.tree)
                          ELSE Outcome("ok", "return", TRUE, done.json,
                                       serialized_inventory.tree, tree_dc.tree)

\* The names a caller asks get_devices about: the groups of the inventory.
SearchNames(d) ==
    {d.name[i] : i \in 1..d.n}
    \cup (IF d.style = "null" THEN {"ungrouped"} ELSE {})

\* The names a caller passes as root container.
RootNames ==
    {GroupNames[i] : i \in 1..MaxGroups}
    \cup {CVP_ROOT_CONTAINER, "children", "hosts"}

(***************************************************************************)
(* The calls.  last records the latest call and what it returned or        *)
(* raised; default_devices is the list that get_devices has as the default *)
(* of devices, created once when the function is defined.                  *)
(***************************************************************************)
NoCall ==
    [op |-> "none", arg |-> "", status |-> "", stage |-> "",
     created |-> FALSE, devices |-> <<>>, container_json |-> <<>>,
     tree |-> NoTree, tree_dc |-> NoTree]

Init ==
    /\ \E n \in 1..MaxGroups :
         \E p \in Parents(n), nm \in Namings(n), hs \in HostProfiles(n),
            st \in Styles :
           \E kd \in Kids(n, p) :
             /\ WellFormed(Descriptor(n, p, nm, kd, hs, st))
             /\ desc = Descriptor(n, p, nm, kd, hs, st)
    /\ inventory = BuildInventory(desc)
    /\ default_devices = <<>>
    /\ ncalls = 0
    /\ last = NoCall

\* What last holds after serialize(dict_inventory=inventory)
SerializeCall ==
    LET t == build_tree(inventory)
    IN  [NoCall EXCEPT !.op = "serialize",
                       !.status = IF t.err = "" THEN "ok" ELSE t.err,
                       !.tree = IF t.err = "" THEN t.tree ELSE NoTree]

\* What last holds after a call of get_devices that ended as got
DevicesCall(op, search_container, got) ==
    [NoCall EXCEPT !.op = op,
                   !.arg = search_container,
                   !.status = IF got.err = "" THEN "ok" ELSE got.err,
                   !.devices = IF got.err = "" THEN got.devices ELSE <<>>]

\* What last holds after get_containers(inventory, parent_container)
ContainersCall(parent_container) ==
    LET out == get_containers(inventory, parent_container)
    IN  [NoCall EXCEPT !.op = "get_containers",
                       !.arg = parent_container,
                       !.status = out.status, !.stage = out.stage,
                       !.created = out.created,
                       !.container_json = out.container_json,
                       !.tree = out.tree, !.tree_dc = out.tree_dc]

(***************************************************************************)
(* Spec: one run on one inventory.  The module calls get_containers once   *)
(* per run; serialize and get_devices are the functions it is made of.     *)
(***************************************************************************)
\* serialize(dict_inventory=inventory)
RunSerialize ==
    /\ last.op = "none"
    /\ last' = SerializeCall
    /\ UNCHANGED <<desc, inventory, default_devices, ncalls>>

\* get_devices(inventory, search_container, devices=list())
RunGetDevices ==
    /\ last.op = "none"
    /\ \E search_container \in SearchNames(desc) :
         last' = DevicesCall("get_devices", search_container,
                   get_devices(inventory, search_container, Collector(<<>>)))
    /\ UNCHANGED <<desc, inventory, default_devices, ncalls>>

\* get_containers(inventory_content=inventory, parent_container=root)
RunGetContainers ==
    /\ last.op = "none"
    /\ \E parent_container \in RootNames :
         last' = ContainersCall(parent_container)
    /\ UNCHANGED <<desc, inventory, default_devices, ncalls>>

Next ==
    \/ RunSerialize
    \/ RunGetDevices
    \/ RunGetContainers

Spec == Init /\ [][Next]_vars

(***************************************************************************)
(* SpecLookups: a caller that imports the module and makes up to MaxCalls  *)
(* calls on one inventory.                                                 *)
(***************************************************************************)
\* get_devices(inventory, search_container): devices is the default list
LookupDefault ==
    /\ ncalls < MaxCalls
    /\ \E search_container \in SearchNames(desc) :
         LET got == get_devices(inventory, search_container,
                                Collector(default_devices))
         IN  /\ default_devices' = got.devices
             /\ last' = DevicesCall("get_devices_default", search_container,
                                    got)
    /\ ncalls' = ncalls + 1
    /\ UNCHANGED <<desc, inventory>>

\* get_devices(inventory, search_container, devices=list())
LookupFresh ==
    /\ ncalls < MaxCalls
    /\ \E search_container \in SearchNames(desc) :
         last' = DevicesCall("get_devices", search_container,
                   get_devices(inventory, search_container, Collector(<<>>)))
    /\ ncalls' = ncalls + 1
    /\ UNCHANGED <<desc, inventory, default_devices>>

\* get_containers(inventory, root), which calls get_devices with list()
LookupContainers ==
    /\ ncalls < MaxCalls
    /\ \E parent_container \in RootNames :
         last' = ContainersCall(parent_container)
    /\ ncalls' = ncalls + 1
    /\ UNCHANGED <<desc, inventory, default_devices>>

NextLookups ==
    \/ LookupDefault
    \/ LookupFresh
    \/ LookupContainers

SpecLookups == Init /\ [][NextLookups]_vars

(***************************************************************************)
(* What an inventory declares, read off its descriptor.                    *)
(***************************************************************************)
NamesOf(d) == {d.name[i] : i \in 1..d.n}

\* No two groups share a name, and none is called like the reserved root.
UniqueGroupNames(d) ==
    /\ \A i, j \in 1..d.n : i # j => d.name[i] # d.name[j]
    /\ CVP_ROOT_CONTAINER \notin NamesOf(d)

SharedName(d) == \E i, j \in 1..d.n : i < j /\ d.name[i] = d.name[j]

\* Every mapping level that is iterated is keyed by group names.
GroupKeyed(d) == d.style # "literal"

EmptyChildren(d, i) == d.kids[i] /\ ~HasChild(d, i)

DeclaredHosts(d, i) == [h \in 1..d.hosts[i] |-> DeviceNames[i][h]]

HostsByName(d, c) ==
    IF c \in NamesOf(d)
    THEN DeclaredHosts(d, CHOOSE i \in 1..d.n : d.name[i] = c)
    ELSE <<>>

DeclaredUnder(d, c) ==
    {DeviceNames[i][h] : <<i, h>> \in
        {ih \in (1..d.n) \X (1..MaxHosts) :
            d.name[ih[1]] = c /\ ih[2] <= d.hosts[ih[1]]}}

DeclaredParent(d, i) ==
    IF d.parent[i] = 0 THEN CVP_ROOT_CONTAINER ELSE d.name[d.parent[i]]

RECURSIVE Under(_, _, _)
Under(d, i, r) ==
    d.name[i] = r \/ (d.parent[i] # 0 /\ Under(d, d.parent[i], r))

DeclaredSubtree(d, r) ==
    IF r = CVP_ROOT_CONTAINER THEN {CVP_ROOT_CONTAINER} \cup NamesOf(d)
    ELSE {d.name[i] : i \in {j \in 1..d.n : Under(d, j, r)}}

RecordNames(json) == {json[k].name : k \in 1..Len(json)}

OneRecordPerNode(json, nodes) ==
    /\ RecordNames(json) = nodes
    /\ Len(json) = Cardinality(nodes)

RootRecord(c) ==
    [Data(c) EXCEPT !.has_parent = TRUE,
                    !.parent_container = CVP_ROOT_CONTAINER]

Returned == last.op = "get_containers" /\ last.status = "ok"

\* get_containers was called on an inventory keyed by group names, all
\* distinct, with a root that the tree has.
PlainCase ==
    /\ last.op = "get_containers"
    /\ UniqueGroupNames(desc)
    /\ GroupKeyed(desc)
    /\ last.arg \in {CVP_ROOT_CONTAINER} \cup NamesOf(desc)

(***************************************************************************)
(* C1                                                                      *)
(***************************************************************************)
TopologyOf(top) ==
    Dict(<<Item(top, Dict(<<Item("children", Dict(<<Item("DC1",
        Dict(<<Item("children", Dict(<<Item("DC1_SPINES",
            Dict(<<Item("hosts", Dict(<<Item("spine1", Dict(<<>>))>>))>>))
        >>))>>))>>))>>))>>)

C1Expected ==
    << RootRecord("DC1"),
       [Data("DC1_SPINES") EXCEPT !.has_parent = TRUE,
                                  !.parent_container = "DC1",
                                  !.has_devices = TRUE,
                                  !.devices = <<"spine1">>] >>

C1Case ==
    /\ inventory = TopologyOf("Tenant")
    /\ last.op = "get_containers"
    /\ last.arg = "DC1"

\* C1 as claimed: for the inventory Tenant > DC1 > DC1_SPINES {spine1} and
\* the root DC1, get_containers returns the records of DC1 and DC1_SPINES.
C1_ReturnsTopology ==
    C1Case => last.status = "ok" /\ last.container_json = C1Expected

\* C1 amended: for that inventory serialize raises DuplicatedNodeIdError when
\* it creates the group Tenant under the root Tenant, and get_containers
\* returns nothing; the records of DC1 and DC1_SPINES are what it returns
\* when the top group is called all.
C1_RaisesDuplicate ==
    /\ C1Case => /\ last.status = "DuplicatedNodeIdError"
                 /\ last.stage = "serialize"
                 /\ ~last.created
                 /\ last.container_json = <<>>
    /\ ( /\ inventory = TopologyOf("all")
         /\ last.op = "get_containers"
         /\ last.arg = "DC1" )
       => last.status = "ok" /\ last.container_json = C1Expected

C1_Witness == C1Case /\ last.status = "DuplicatedNodeIdError"

(***************************************************************************)
(* C2                                                                      *)
(***************************************************************************)
\* C2 as claimed: one record per node of the extracted subtree other than
\* Tenant, and as many records as the subtree has nodes, minus one.
C2_CountMinusOne ==
    PlainCase =>
        /\ last.status = "ok"
        /\ OneRecordPerNode(last.container_json,
             DeclaredSubtree(desc, last.arg) \ {CVP_ROOT_CONTAINER})
        /\ Len(last.container_json)
             = Cardinality(DeclaredSubtree(desc, last.arg)) - 1

\* C2 amended: one record per node of the extracted subtree other than
\* Tenant; the records are as many as the nodes of the subtree when the root
\* is not Tenant, and one fewer when it is.
C2_CountOfSubtree ==
    /\ PlainCase =>
        /\ last.status = "ok"
        /\ OneRecordPerNode(last.container_json,
             DeclaredSubtree(desc, last.arg) \ {CVP_ROOT_CONTAINER})
        /\ Len(last.container_json)
             = Cardinality(DeclaredSubtree(desc, last.arg))
               - (IF last.arg = CVP_ROOT_CONTAINER THEN 1 ELSE 0)
    /\ Returned =>
        OneRecordPerNode(last.container_json,
                         Ids(last.tree_dc) \ {CVP_ROOT_CONTAINER})

C2_Witness ==
    /\ PlainCase
    /\ last.status = "ok"
    /\ last.arg # CVP_ROOT_CONTAINER
    /\ Len(last.container_json) = 2
    /\ Cardinality(DeclaredSubtree(desc, last.arg)) = 2

(***************************************************************************)
(* C3                                                                      *)
(***************************************************************************)
\* C3 as claimed: whatever root of the tree is asked for, Tenant included,
\* the output has its record, with parent_container Tenant.
C3_RootRecordAlways ==
    Returned =>
        \E k \in 1..Len(last.container_json) :
            /\ last.container_json[k].name = last.arg
            /\ last.container_json[k].has_parent
            /\ last.container_json[k].parent_container = CVP_ROOT_CONTAINER

\* C3 amended: for every root other than Tenant the output has its record,
\* with parent_container Tenant and no devices, whatever its depth; for the
\* root Tenant the output has no record of Tenant.
C3_RootRecordUnlessTenant ==
    /\ PlainCase => last.status = "ok"
    /\ Returned /\ last.arg # CVP_ROOT_CONTAINER =>
        /\ \E k \in 1..Len(last.container_json) :
              last.container_json[k] = RootRecord(last.arg)
        /\ \A k \in 1..Len(last.container_json) :
              last.container_json[k].name = last.arg
                  => last.container_json[k] = RootRecord(last.arg)
    /\ Returned /\ last.arg = CVP_ROOT_CONTAINER =>
        CVP_ROOT_CONTAINER \notin RecordNames(last.container_json)

C3_Witness ==
    /\ PlainCase
    /\ Returned
    /\ last.arg # CVP_ROOT_CONTAINER
    /\ ParentOf(last.tree, last.arg) # CVP_ROOT_CONTAINER
    /\ RootRecord(last.arg) \in
          {last.container_json[k] : k \in 1..Len(last.container_json)}

(***************************************************************************)
(* C4                                                                      *)
(***************************************************************************)
\* C4 as claimed: whatever lookups came before, the list returned for a
\* container, or attached to its record, holds no device that only another
\* container declares.
C4_NoForeignDevice ==
    UniqueGroupNames(desc) =>
        /\ ( /\ last.op \in {"get_devices", "get_devices_default"}
             /\ last.status = "ok" )
           => \A k \in 1..Len(last.devices) :
                  last.devices[k] \in DeclaredUnder(desc, last.arg)
        /\ Returned =>
             \A k \in 1..Len(last.container_json) :
                 \A h \in 1..Len(last.container_json[k].devices) :
                     last.container_json[k].devices[h]
                         \in DeclaredUnder(desc, last.container_json[k].name)

(***************************************************************************)
(* C5                                                                      *)
(***************************************************************************)
\* C5 as claimed: get_devices with a fresh list returns the hosts the group
\* declares itself, in their order, wherever the group sits.
C5_OwnHosts ==
    last.op = "get_devices" /\ UniqueGroupNames(desc) =>
        \A i \in 1..desc.n :
            last.arg = desc.name[i] =>
                /\ last.status = "ok"
                /\ last.devices = DeclaredHosts(desc, i)

(***************************************************************************)
(* C6                                                                      *)
(***************************************************************************)
C6Case ==
    /\ last.op = "get_containers"
    /\ last.tree # NoTree
    /\ ~Contains(last.tree, last.arg)

\* C6: a root that names no node of the tree makes get_containers fail in
\* the subtree step, before container_json exists, and no record is made.
C6_MissingRoot ==
    C6Case =>
        /\ last.status = "NodeIDAbsentError"
        /\ last.stage = "subtree"
        /\ ~last.created
        /\ last.container_json = <<>>

C6_Witness ==
    /\ C6Case
    /\ GroupKeyed(desc)
    /\ Len(last.tree) > 2
    /\ last.status = "NodeIDAbsentError"

(***************************************************************************)
(* C7                                                                      *)
(***************************************************************************)
C7Case == last.op = "serialize" /\ SharedName(desc)

\* C7 as claimed: with two groups of one name serialize raises nothing and
\* returns a tree.
C7_FailsOpen == C7Case => last.status = "ok" /\ last.tree # NoTree

\* C7 amended: with two groups of one name serialize raises
\* DuplicatedNodeIdError when it creates the second and returns no tree.
C7_FailsClosed ==
    C7Case => last.status = "DuplicatedNodeIdError" /\ last.tree = NoTree

C7_Witness == C7Case /\ last.status = "DuplicatedNodeIdError"

(***************************************************************************)
(* C8                                                                      *)
(***************************************************************************)
\* Group i has an empty children mapping, is in the extracted subtree and
\* does not sit under Tenant.
C8Case(i) ==
    /\ Returned
    /\ GroupKeyed(desc)
    /\ EmptyChildren(desc, i)
    /\ Contains(last.tree_dc, desc.name[i])
    /\ ParentOf(last.tree, desc.name[i]) # CVP_ROOT_CONTAINER

NoDescendants(tree, c) == \A k \in 1..Len(tree) : tree[k].parent # c

\* C8 as claimed: such a group is a node without descendants and its record
\* has a devices list, also when it is the root container.
C8_DevicesAlways ==
    \A i \in 1..desc.n :
        C8Case(i) =>
            /\ NoDescendants(last.tree, desc.name[i])
            /\ \E k \in 1..Len(last.container_json) :
                  /\ last.container_json[k].name = desc.name[i]
                  /\ last.container_json[k].has_devices

\* C8 amended: such a group is a node without descendants; its record has a
\* devices list unless it is the root container, whose record has
\* parent_container Tenant and nothing else.
C8_DevicesUnlessRoot ==
    /\ \A i \in 1..desc.n :
        ( /\ last.op \in {"serialize", "get_containers"}
          /\ last.tree # NoTree
          /\ GroupKeyed(desc)
          /\ EmptyChildren(desc, i) )
        => /\ Contains(last.tree, desc.name[i])
           /\ NoDescendants(last.tree, desc.name[i])
    /\ \A i \in 1..desc.n :
        C8Case(i) =>
            \E k \in 1..Len(last.container_json) :
                /\ last.container_json[k].name = desc.name[i]
                /\ IF desc.name[i] = last.arg
                   THEN last.container_json[k] = RootRecord(last.arg)
                   ELSE /\ last.container_json[k].has_devices
                        /\ last.container_json[k].devices
                              = DeclaredHosts(desc, i)

C8_Witness ==
    \E i \in 1..desc.n :
        /\ C8Case(i)
        /\ desc.name[i] # last.arg
        /\ desc.hosts[i] > 0
        /\ \E k \in 1..Len(last.container_json) :
              /\ last.container_json[k].name = desc.name[i]
              /\ last.container_json[k].devices = DeclaredHosts(desc, i)

(***************************************************************************)
(* C9                                                                      *)
(***************************************************************************)
\* C9 as claimed: the tree has the node Tenant and one node per group, no
\* node for the keys children and hosts, and every group sits under the
\* group that declares it, also when an iterated level has the key children.
C9_TreeOfGroups ==
    ( /\ last.op = "serialize"
      /\ UniqueGroupNames(desc)
      /\ desc.style \in {"plain", "literal"} )
    => /\ last.status = "ok"
       /\ Ids(last.tree) = {CVP_ROOT_CONTAINER} \cup NamesOf(desc)
       /\ Len(last.tree) = desc.n + 1
       /\ \A i \in 1..desc.n :
             ParentOf(last.tree, desc.name[i]) = DeclaredParent(desc, i)

(***************************************************************************)
(* C10                                                                     *)
(***************************************************************************)
\* C10: the record of a container other than the root is empty under Tenant;
\* elsewhere it names the structural parent and has devices, the hosts the
\* container declares, exactly when the container has no children.
C10_Records ==
    /\ PlainCase => last.status = "ok"
    /\ Returned =>
        /\ Ids(last.tree_dc) \ {CVP_ROOT_CONTAINER, last.arg}
              \subseteq RecordNames(last.container_json)
        /\ \A k \in 1..Len(last.container_json) :
            LET rec == last.container_json[k]
                c == rec.name
                p == ParentOf(last.tree, c)
            IN  c # last.arg =>
                  IF p = CVP_ROOT_CONTAINER THEN rec = Data(c)
                  ELSE /\ rec.has_parent
                       /\ rec.parent_container = p
                       /\ (GroupKeyed(desc) /\ c \in NamesOf(desc) =>
                             p = DeclaredParent(desc,
                                   CHOOSE i \in 1..desc.n : desc.name[i] = c))
                       /\ rec.has_devices
                            <=> NoDescendants(last.tree_dc, c)
                       /\ rec.devices
                            = IF rec.has_devices THEN HostsByName(desc, c)
                              ELSE <<>>

C10_Witness ==
    /\ Returned
    /\ \E k \in 1..Len(last.container_json) :
          /\ last.container_json[k].name # last.arg
          /\ last.container_json[k] = Data(last.container_json[k].name)
    /\ \E k \in 1..Len(last.container_json) :
          /\ last.container_json[k].name # last.arg
          /\ last.container_json[k].has_parent
          /\ ~last.container_json[k].has_devices
    /\ \E k \in 1..Len(last.container_json) :
          /\ last.container_json[k].name # last.arg
          /\ last.container_json[k].has_devices
          /\ Len(last.container_json[k].devices) = MaxHosts

====
